---- MODULE Spec2Model ----
(***************************************************************************)
(* Model of spring_boot_mcp_converter.py: the regex scanner that recovers  *)
(* endpoints and models from Java source text, the batch pipeline in       *)
(* main(), and the FastAPI proxy that generate_server() writes to main.py. *)
(*                                                                         *)
(* Text is modelled lexically.  A string is a sequence of pieces (maximal  *)
(* runs of word characters, single punctuation characters, runs of blanks, *)
(* free text); a file's content is a sequence of tokens                    *)
(*     [k |-> kind, v |-> pieces]                                          *)
(* with explicit whitespace tokens, so that every regular expression of    *)
(* the source is translated position by position (\s+, \s*, \w+, literal   *)
(* punctuation, lazy groups that stop at the first closing character).     *)
(***************************************************************************)
EXTENDS Integers, Sequences, FiniteSets, TLC

VARIABLES
    projectExists,  \* Path(project_path).exists()
    files,          \* the files glob('**/src/main/java/**/*.java') yields, in order
    pc,             \* position of main(): "start", "scanning", "scanned", "done"
    hasLogger,      \* self.logger has been assigned (line 64)
    base_package,   \* SpringEndpointScanner.base_package
    endpoints,      \* SpringEndpointScanner.endpoints
    models,         \* SpringEndpointScanner.models (set of [name, fields], one per key)
    idx,            \* index of the next file of the scan_project loop
    raised,         \* the exception that reached main()'s handler, or "none"
    exitCode,       \* main()'s return value, -1 while running
    outputFiles,    \* names of the files generate_server has written
    schemaDoc,      \* content of mcp_schema.json, <<>> while not written
    unitIn,         \* input of a directly applied function
    unitOut,        \* its result
    unitPc,         \* "ready" before the application, "applied" after
    schemaEndpoints,\* main.py: MCP_SCHEMA["endpoints"]
    method,         \* main.py: the module-level variable method
    regIdx,         \* main.py: turns of the registration loop done
    routes,         \* main.py: the handlers registered with the app, in order
    requests        \* main.py: the inbound requests received so far

mainVars == <<projectExists, files, pc, hasLogger, base_package, endpoints,
              models, idx, raised, exitCode, outputFiles, schemaDoc>>
unitVars == <<unitIn, unitOut, unitPc>>
proxyVars == <<schemaEndpoints, method, regIdx, routes, requests>>
vars == <<mainVars, unitVars, proxyVars>>

-----------------------------------------------------------------------------
(* Bounds *)

MaxFiles == 2       \* number of files in a project
MaxParams == 2      \* number of parameters of a mapped method
MaxFields == 2      \* number of field declarations of a data class
MaxTypeLen == 2     \* number of pieces of a type name
MaxRequests == 1    \* number of inbound requests the proxy receives
RulerLen == 21      \* tens of characters of the long comment line

(* Program constants *)

Lookahead == 200    \* content[method_pos:method_pos+200]
MinParts == 2       \* len(parts) > 2 : packages of more than two segments lose the last

-----------------------------------------------------------------------------
(* Strings as sequences of pieces *)

RECURSIVE SumLen(_)
SumLen(v) == IF v = <<>> THEN 0 ELSE Len(Head(v)) + SumLen(Tail(v))

StartsWith(v, p) == Len(v) >= 1 /\ v[1] = p

Contains(v, p) == \E i \in 1..Len(v) : v[i] = p

RECURSIVE Without(_, _)
Without(v, p) ==
    IF v = <<>> THEN <<>>
    ELSE IF Head(v) = p THEN Without(Tail(v), p)
    ELSE <<Head(v)>> \o Without(Tail(v), p)

RECURSIVE JoinWith(_, _)
JoinWith(parts, sep) ==
    IF parts = <<>> THEN <<>>
    ELSE IF Len(parts) = 1 THEN <<parts[1]>>
    ELSE <<parts[1], sep>> \o JoinWith(Tail(parts), sep)

(* Tokens *)

W(s)  == [k |-> "w",  v |-> <<s>>]      \* a word: a maximal run of \w
A(s)  == [k |-> "a",  v |-> <<s>>]      \* an annotation @s
P(s)  == [k |-> "p",  v |-> <<s>>]      \* one punctuation character
Str(v) == [k |-> "s", v |-> v]          \* a string literal "v"
Dotted(v) == [k |-> "n", v |-> v]       \* a dotted name  a.b.c  (pieces include the dots)
Doc(v) == [k |-> "doc", v |-> v]        \* a comment /** v */
Sp    == [k |-> "ws", v |-> <<" ">>]    \* blanks on one line
Nl    == [k |-> "ws", v |-> <<"\n">>]   \* whitespace containing a line break

IsW(c, i)      == i >= 1 /\ i <= Len(c) /\ c[i].k = "w"
IsWord(c, i, s) == IsW(c, i) /\ c[i].v = <<s>>
IsA(c, i, s)   == i >= 1 /\ i <= Len(c) /\ c[i].k = "a" /\ c[i].v = <<s>>
IsP(c, i, s)   == i >= 1 /\ i <= Len(c) /\ c[i].k = "p" /\ c[i].v = <<s>>
IsStr(c, i)    == i >= 1 /\ i <= Len(c) /\ c[i].k = "s" /\ c[i].v # <<>>
IsWs(c, i)     == i >= 1 /\ i <= Len(c) /\ c[i].k = "ws"
IsNl(c, i)     == IsWs(c, i) /\ c[i].v = <<"\n">>

\* \s* : the position after optional whitespace (whitespace tokens never touch)
SkipWs(c, i) == IF IsWs(c, i) THEN i + 1 ELSE i

\* number of characters of a token
TokLen(t) ==
    CASE t.k = "a"   -> 1 + SumLen(t.v)
      [] t.k = "s"   -> 2 + SumLen(t.v)
      [] t.k = "doc" -> 5 + SumLen(t.v)
      [] OTHER       -> SumLen(t.v)

RECURSIVE CharLen(_)
CharLen(c) == IF c = <<>> THEN 0 ELSE TokLen(Head(c)) + CharLen(Tail(c))

Min(S) == CHOOSE x \in S : \A y \in S : x <= y

-----------------------------------------------------------------------------
(* _detect_base_package *)

\* re.search(r'@SpringBootApplication', content)
HasEntryMarker(c) == \E i \in 1..Len(c) : IsA(c, i, "SpringBootApplication")

\* re.search(r'package\s+([\w.]+);', content): positions of the name token
PackageMatches(c) ==
    {i \in 1..Len(c) : /\ IsWord(c, i - 2, "package")
                       /\ IsWs(c, i - 1)
                       /\ c[i].k \in {"n", "w"}
                       /\ IsP(c, i + 1, ";")}

\* package.split('.')
SplitDots(v) == Without(v, ".")

\* the declared namespace kept whole, no segment dropped
DeclaredPackageOf(c) == c[Min(PackageMatches(c))].v

\* the value returned for one readable file holding the entry marker and a
\* package declaration
BasePackageOf(c) ==
    LET package == c[Min(PackageMatches(c))].v
        parts   == SplitDots(package)
    IN  IF Len(parts) > MinParts
        THEN JoinWith(SubSeq(parts, 1, Len(parts) - 1), ".")
        ELSE package

\* The loop of _detect_base_package over fs.  Result: [kind, value] where
\* kind = "return" with the returned package, or kind = "raise" with the
\* exception that leaves the function.  self.logger does not exist yet when
\* __init__ calls this function (line 63 runs before line 64), so the
\* handlers of lines 105-110 raise AttributeError.
RECURSIVE DetectLoop(_, _)
DetectLoop(fs, logger) ==
    IF fs = <<>> THEN [kind |-> "return", value |-> <<>>]
    ELSE LET f == Head(fs) IN
         CASE f.status = "undecodable" -> DetectLoop(Tail(fs), logger)
           [] f.status \in {"missing", "denied"} ->
                IF logger THEN DetectLoop(Tail(fs), logger)
                ELSE [kind |-> "raise", value |-> <<"AttributeError">>]
           [] OTHER ->
                IF HasEntryMarker(f.content) /\ PackageMatches(f.content) # {}
                THEN [kind |-> "return", value |-> BasePackageOf(f.content)]
                ELSE DetectLoop(Tail(fs), logger)

\* glob over a project path that does not exist yields nothing
_detect_base_package(exists, fs, logger) ==
    DetectLoop(IF exists THEN fs ELSE <<>>, logger)

-----------------------------------------------------------------------------
(* Token sequences: slicing, splitting, stripping, rendering *)

IsSep(t, sep) == IF sep = "ws" THEN t.k = "ws" ELSE t.k = "p" /\ t.v = <<sep>>

\* str.split(sep) on a token sequence: the parts between separator tokens
RECURSIVE SplitTok(_, _)
SplitTok(c, sep) ==
    LET S == {i \in 1..Len(c) : IsSep(c[i], sep)}
    IN  IF S = {} THEN <<c>>
        ELSE <<SubSeq(c, 1, Min(S) - 1)>> \o SplitTok(SubSeq(c, Min(S) + 1, Len(c)), sep)

RECURSIVE NonEmpty(_)
NonEmpty(parts) ==
    IF parts = <<>> THEN <<>>
    ELSE IF Head(parts) = <<>> THEN NonEmpty(Tail(parts))
    ELSE <<Head(parts)>> \o NonEmpty(Tail(parts))

\* str.split(): the whitespace-separated chunks, none empty
SplitWhitespace(c) == NonEmpty(SplitTok(c, "ws"))

\* str.strip() on a token sequence
RECURSIVE StripTok(_)
StripTok(c) ==
    IF c = <<>> THEN c
    ELSE IF IsWs(c, 1) THEN StripTok(Tail(c))
    ELSE IF IsWs(c, Len(c)) THEN StripTok(SubSeq(c, 1, Len(c) - 1))
    ELSE c

\* the characters of a token, as pieces
TokText(t) ==
    CASE t.k = "a"   -> <<"@">> \o t.v
      [] t.k = "s"   -> <<"\"">> \o t.v \o <<"\"">>
      [] t.k = "doc" -> <<"/**">> \o t.v \o <<"*/">>
      [] OTHER       -> t.v

RECURSIVE Text(_)
Text(c) == IF c = <<>> THEN <<>> ELSE TokText(Head(c)) \o Text(Tail(c))

\* str.strip() / str.lstrip('*') on pieces
RECURSIVE StripPieces(_)
StripPieces(v) ==
    IF v = <<>> THEN v
    ELSE IF Head(v) = " " THEN StripPieces(Tail(v))
    ELSE IF v[Len(v)] = " " THEN StripPieces(SubSeq(v, 1, Len(v) - 1))
    ELSE v

RECURSIVE LStripStars(_)
LStripStars(v) ==
    IF v = <<>> THEN v
    ELSE IF Head(v) = "*" THEN LStripStars(Tail(v))
    ELSE v

\* str.split('\n') on pieces
RECURSIVE SplitLines(_)
SplitLines(v) ==
    LET S == {i \in 1..Len(v) : v[i] = "\n"}
    IN  IF S = {} THEN <<v>>
        ELSE <<SubSeq(v, 1, Min(S) - 1)>> \o SplitLines(SubSeq(v, Min(S) + 1, Len(v)))

-----------------------------------------------------------------------------
(* _extract_request_mapping: the regular expressions *)

\* r'@<ann>\s*\(\s*(?:value\s*=)?\s*"([^"]+)"\s*\)' tried at token i
MappingAt(c, i, ann) ==
    LET j1 == SkipWs(c, i + 1)
        j2 == SkipWs(c, j1 + 1)
        hasValue == IsWord(c, j2, "value") /\ IsP(c, SkipWs(c, j2 + 1), "=")
        j3 == IF hasValue THEN SkipWs(c, SkipWs(c, j2 + 1) + 1) ELSE j2
        j4 == SkipWs(c, j3 + 1)
    IN  IF IsA(c, i, ann) /\ IsP(c, j1, "(") /\ IsStr(c, j3) /\ IsP(c, j4, ")")
        THEN [ok |-> TRUE, path |-> c[j3].v, end |-> j4]
        ELSE [ok |-> FALSE, path |-> <<>>, end |-> 0]

MappingStarts(c, ann) == {i \in 1..Len(c) : MappingAt(c, i, ann).ok}

Modifiers == {"public", "private", "protected"}

\* r'(?:public|private|protected)?\s+\w+\s+(\w+)\s*\(' tried at token i:
\* the index of the captured name, 0 when there is no match at i
SigNameAt(c, i) ==
    IF /\ IsW(c, i) /\ c[i].v[1] \in Modifiers
       /\ IsWs(c, i + 1) /\ IsW(c, i + 2) /\ IsWs(c, i + 3) /\ IsW(c, i + 4)
       /\ IsP(c, SkipWs(c, i + 5), "(")
    THEN i + 4
    ELSE IF /\ IsWs(c, i) /\ IsW(c, i + 1) /\ IsWs(c, i + 2) /\ IsW(c, i + 3)
            /\ IsP(c, SkipWs(c, i + 4), "(")
    THEN i + 3
    ELSE 0

\* re.search of the signature pattern: the captured method name, <<>> for None
MethodNameMatch(c) ==
    LET S == {i \in 1..Len(c) : SigNameAt(c, i) # 0}
    IN  IF S = {} THEN <<>> ELSE c[SigNameAt(c, Min(S))].v

\* r'(?:public|private|protected)?\s+(\w+(?:<.*?>)?)\s+\w+\s*\(' with the type
\* starting at token t: the index of the last token of the type, 0 for no match
TypeEndAt(c, t) ==
    IF ~IsW(c, t) THEN 0
    ELSE IF IsP(c, t + 1, "<")
    THEN LET G == {g \in (t + 2)..Len(c) :
                     /\ IsP(c, g, ">")
                     /\ \A m \in (t + 2)..(g - 1) : ~IsNl(c, m)
                     /\ IsWs(c, g + 1) /\ IsW(c, g + 2)
                     /\ IsP(c, SkipWs(c, g + 3), "(")}
         IN  IF G = {} THEN 0 ELSE Min(G)
    ELSE IF IsWs(c, t + 1) /\ IsW(c, t + 2) /\ IsP(c, SkipWs(c, t + 3), "(")
    THEN t
    ELSE 0

\* the start of the type for a match that begins at token i, 0 for no match
RetStartAt(c, i) ==
    IF IsW(c, i) /\ c[i].v[1] \in Modifiers /\ IsWs(c, i + 1) /\ TypeEndAt(c, i + 2) # 0
    THEN i + 2
    ELSE IF IsWs(c, i) /\ TypeEndAt(c, i + 1) # 0
    THEN i + 1
    ELSE 0

\* response_type: "Object" unless the return-type pattern matches
ResponseType(c) ==
    LET S == {i \in 1..Len(c) : RetStartAt(c, i) # 0}
    IN  IF S = {} THEN <<"Object">>
        ELSE LET t == RetStartAt(c, Min(S))
             IN  Text(SubSeq(c, t, TypeEndAt(c, t)))

\* r'\(\s*(.*?)\s*\)' : the first "(" whose first following ")" is reached
\* without a line break inside the group; the group is what lies between,
\* stripped.  [ok, text]
CloseAfter(c, a) ==
    LET S == {e \in (a + 1)..Len(c) : IsP(c, e, ")")}
    IN  IF S = {} THEN 0 ELSE Min(S)

GroupOf(c, a) == StripTok(SubSeq(c, a + 1, CloseAfter(c, a) - 1))

ParamOpens(c) ==
    {a \in 1..Len(c) : /\ IsP(c, a, "(")
                       /\ CloseAfter(c, a) # 0
                       /\ \A m \in 1..Len(GroupOf(c, a)) : ~IsNl(GroupOf(c, a), m)}

ParamSection(c) ==
    IF ParamOpens(c) = {} THEN [ok |-> FALSE, text |-> <<>>]
    ELSE [ok |-> TRUE, text |-> GroupOf(c, Min(ParamOpens(c)))]

\* content[match.end():].split('}')[0]
MethodContent(c, end) ==
    LET rest == SubSeq(c, end + 1, Len(c))
        S == {i \in 1..Len(rest) : Contains(rest[i].v, "}")}
    IN  IF S = {} THEN rest ELSE SubSeq(rest, 1, Min(S) - 1)

\* r'@PathVariable\s*(?:\(\s*(?:name|value)\s*=\s*"([^"]+)"\s*\))?' searched
\* in one parameter: group(1), <<>> for None (no match, or the optional
\* group did not take part)
PathVariableGroup(c) ==
    LET S  == {i \in 1..Len(c) : IsA(c, i, "PathVariable")}
        i  == Min(S)
        j1 == SkipWs(c, i + 1)
        j2 == SkipWs(c, j1 + 1)
        j3 == SkipWs(c, j2 + 1)
        j4 == SkipWs(c, j3 + 1)
        j5 == SkipWs(c, j4 + 1)
    IN  IF S = {} THEN <<>>
        ELSE IF /\ IsP(c, j1, "(")
                /\ (IsWord(c, j2, "name") \/ IsWord(c, j2, "value"))
                /\ IsP(c, j3, "=") /\ IsStr(c, j4) /\ IsP(c, j5, ")")
        THEN c[j4].v
        ELSE <<>>

\* r'@RequestParam\s*(?:\(\s*(?:name|value)\s*=\s*"([^"]+)"\s*
\*    (?:,\s*required\s*=\s*(true|false))?\))?' searched in one parameter:
\* [matched, name = group(1) or <<>>, required = group(2) or <<>>]
RequestParamGroups(c) ==
    LET S  == {i \in 1..Len(c) : IsA(c, i, "RequestParam")}
        i  == Min(S)
        j1 == SkipWs(c, i + 1)
        j2 == SkipWs(c, j1 + 1)
        j3 == SkipWs(c, j2 + 1)
        j4 == SkipWs(c, j3 + 1)
        j5 == SkipWs(c, j4 + 1)
        r1 == SkipWs(c, j5 + 1)
        r2 == SkipWs(c, r1 + 1)
        r3 == SkipWs(c, r2 + 1)
        head == /\ IsP(c, j1, "(")
                /\ (IsWord(c, j2, "name") \/ IsWord(c, j2, "value"))
                /\ IsP(c, j3, "=") /\ IsStr(c, j4)
        withRequired == /\ IsP(c, j5, ",") /\ IsWord(c, r1, "required")
                        /\ IsP(c, r2, "=")
                        /\ (IsWord(c, r3, "true") \/ IsWord(c, r3, "false"))
                        /\ IsP(c, r3 + 1, ")")
    IN  IF S = {} THEN [matched |-> FALSE, name |-> <<>>, required |-> <<>>]
        ELSE IF head /\ withRequired
        THEN [matched |-> TRUE, name |-> c[j4].v, required |-> c[r3].v]
        ELSE IF head /\ IsP(c, j5, ")")
        THEN [matched |-> TRUE, name |-> c[j4].v, required |-> <<>>]
        ELSE [matched |-> TRUE, name |-> <<>>, required |-> <<>>]

\* Lines 189-220 for one stripped, non-empty parameter of at least two
\* whitespace-separated parts.  A Python dict is modelled as a record of all
\* possible keys plus "keys", the keys the dict really has; the value of an
\* absent key is a placeholder (<<>>, FALSE).
Parameter(param) ==
    LET param_parts == SplitWhitespace(param)
        n           == Len(param_parts)
        path_var    == PathVariableGroup(param)
        rp          == RequestParamGroups(param)
        req_param   == rp.name
        req_param_required == ~(rp.matched /\ rp.required = <<"false">>)
    IN  [name     |-> Without(Text(param_parts[n]), ";"),
         type     |-> Text(param_parts[n - 1]),
         isBody   |-> \E i \in 1..Len(param) : IsA(param, i, "RequestBody"),
         keys     |-> {"name", "type", "isBody"} \cup
                      (IF path_var # <<>> THEN {"pathVariable"}
                       ELSE IF req_param # <<>> THEN {"requestParam", "required"}
                       ELSE {}),
         pathVariable |-> path_var,
         requestParam |-> IF path_var = <<>> THEN req_param ELSE <<>>,
         required |-> path_var = <<>> /\ req_param # <<>> /\ req_param_required]

\* the loop of lines 186-220 over param_text.split(',')
RECURSIVE ParameterList(_)
ParameterList(param_list) ==
    IF param_list = <<>> THEN <<>>
    ELSE LET param == StripTok(Head(param_list))
         IN  (IF param # <<>> /\ Len(SplitWhitespace(param)) >= 2
              THEN <<Parameter(param)>> ELSE <<>>)
             \o ParameterList(Tail(param_list))

\* lines 183-220: parameters of a matched param_section
Parameters(param_text) ==
    IF StripTok(param_text) = <<>> THEN <<>>
    ELSE ParameterList(SplitTok(param_text, ","))

-----------------------------------------------------------------------------
(* _extract_request_mapping: documentation comments *)

\* lines 141-147: the non-directive lines of a comment, each followed by " "
RECURSIVE DescriptionOf(_)
DescriptionOf(lines) ==
    IF lines = <<>> THEN <<>>
    ELSE LET line == StripPieces(LStripStars(StripPieces(Head(lines))))
         IN  (IF line # <<>> /\ ~StartsWith(line, "@") THEN line \o <<" ">> ELSE <<>>)
             \o DescriptionOf(Tail(lines))

\* content[method_pos:method_pos+200]: the tokens that lie wholly within
\* the budget of characters
RECURSIVE TakeChars(_, _)
TakeChars(c, budget) ==
    IF c = <<>> THEN <<>>
    ELSE IF TokLen(Head(c)) > budget THEN <<>>
    ELSE <<Head(c)>> \o TakeChars(Tail(c), budget - TokLen(Head(c)))

\* lines 139-155: javadoc_descriptions as the sequence of its assignments
\* [name, text], oldest first
RECURSIVE JavadocFrom(_, _)
JavadocFrom(c, from) ==
    LET D == {i \in from..Len(c) : c[i].k = "doc"}
    IN  IF D = {} THEN <<>>
        ELSE LET d             == Min(D)
                 description   == DescriptionOf(SplitLines(c[d].v))
                 method_search == TakeChars(SubSeq(c, d + 1, Len(c)), Lookahead)
                 method_name   == MethodNameMatch(method_search)
             IN  (IF method_name # <<>> /\ description # <<>>
                  THEN <<[name |-> method_name, text |-> StripPieces(description)]>>
                  ELSE <<>>)
                 \o JavadocFrom(c, d + 1)

javadoc_descriptions(c) == JavadocFrom(c, 1)

\* dict.get(name, default) on the sequence of assignments: the last one wins
DictGet(dict, name, default) ==
    LET S == {i \in 1..Len(dict) : dict[i].name = name}
    IN  IF S = {} THEN default
        ELSE dict[CHOOSE i \in S : \A j \in S : j <= i].text

-----------------------------------------------------------------------------
(* _extract_request_mapping *)

\* lines 127-133
method_mapping_patterns ==
    << [ann |-> "GetMapping",    method |-> "GET"],
       [ann |-> "PostMapping",   method |-> "POST"],
       [ann |-> "PutMapping",    method |-> "PUT"],
       [ann |-> "DeleteMapping", method |-> "DELETE"],
       [ann |-> "PatchMapping",  method |-> "PATCH"] >>

\* lines 118-124: the class-level prefix, <<>> when there is none
ClassMapping(c) ==
    LET S == MappingStarts(c, "RequestMapping")
        g == MappingAt(c, Min(S), "RequestMapping").path
    IN  IF S = {} THEN <<>>
        ELSE IF StartsWith(g, "/") THEN g ELSE <<"/">> \o g

\* lines 159-161
NormalizePath(path) == IF StartsWith(path, "/") THEN path ELSE <<"/">> \o path

\* lines 159-236 for the match of pattern pat that starts at token i:
\* the endpoints appended (one or none)
EndpointAt(c, i, pat, class_mapping, docs) ==
    LET m              == MappingAt(c, i, pat.ann)
        path           == NormalizePath(m.path)
        method_content == MethodContent(c, m.end)
        method_name    == MethodNameMatch(method_content)
        param_section  == ParamSection(method_content)
        full_path      == class_mapping \o path
    IN  IF method_name = <<>> THEN <<>>
        ELSE << [path         |-> full_path,
                 method       |-> pat.method,
                 methodName   |-> method_name,
                 parameters   |-> IF param_section.ok
                                  THEN Parameters(param_section.text) ELSE <<>>,
                 responseType |-> IF param_section.ok
                                  THEN ResponseType(method_content) ELSE <<"Object">>,
                 description  |-> DictGet(docs, method_name,
                                          <<pat.method, " endpoint for ">> \o full_path)] >>

RECURSIVE SortedSeq(_)
SortedSeq(S) == IF S = {} THEN <<>> ELSE <<Min(S)>> \o SortedSeq(S \ {Min(S)})

\* re.finditer(pattern, content), left to right
RECURSIVE EndpointsOfMatches(_, _, _, _, _)
EndpointsOfMatches(c, starts, pat, class_mapping, docs) ==
    IF starts = <<>> THEN <<>>
    ELSE EndpointAt(c, Head(starts), pat, class_mapping, docs)
         \o EndpointsOfMatches(c, Tail(starts), pat, class_mapping, docs)

RECURSIVE EndpointsOfPatterns(_, _, _, _)
EndpointsOfPatterns(c, pats, class_mapping, docs) ==
    IF pats = <<>> THEN <<>>
    ELSE EndpointsOfMatches(c, SortedSeq(MappingStarts(c, Head(pats).ann)),
                            Head(pats), class_mapping, docs)
         \o EndpointsOfPatterns(c, Tail(pats), class_mapping, docs)

_extract_request_mapping(content) ==
    EndpointsOfPatterns(content, method_mapping_patterns,
                        ClassMapping(content), javadoc_descriptions(content))

-----------------------------------------------------------------------------
(* JavaTypeConverter.to_json_schema_type *)

IntegerAliases == {<<"int">>, <<"Integer">>, <<"long">>, <<"Long">>,
                   <<"short">>, <<"Short">>, <<"byte">>, <<"Byte">>}
NumberAliases  == {<<"double">>, <<"Double">>, <<"float">>, <<"Float">>, <<"BigDecimal">>}
BooleanAliases == {<<"boolean">>, <<"Boolean">>}
CollectionAliases == {<<"List">>, <<"ArrayList">>, <<"Set">>, <<"HashSet">>, <<"Collection">>}
MapAliases     == {<<"Map">>, <<"HashMap">>, <<"TreeMap">>}

\* java_type.startswith("Map<")
StartsWithMapGeneric(java_type) ==
    Len(java_type) >= 2 /\ java_type[1] = "Map" /\ java_type[2] = "<"

\* the rules with the map rule tried before the collection rule
MapBeforeCollection(java_type) ==
    IF java_type \in IntegerAliases THEN "integer"
    ELSE IF java_type \in NumberAliases THEN "number"
    ELSE IF java_type \in BooleanAliases THEN "boolean"
    ELSE IF java_type \in MapAliases \/ StartsWithMapGeneric(java_type) THEN "object"
    ELSE IF java_type \in CollectionAliases \/ Contains(java_type, "<") THEN "array"
    ELSE "string"

to_json_schema_type(java_type) ==
    IF java_type \in IntegerAliases THEN "integer"
    ELSE IF java_type \in NumberAliases THEN "number"
    ELSE IF java_type \in BooleanAliases THEN "boolean"
    ELSE IF java_type \in CollectionAliases \/ Contains(java_type, "<") THEN "array"
    ELSE IF java_type \in MapAliases \/ StartsWithMapGeneric(java_type) THEN "object"
    ELSE "string"

-----------------------------------------------------------------------------
(* _extract_models *)

ModelMarkers == {"Entity", "Data", "Serializable"}

\* r'@(\w+)\s*\(' : the matches whose annotation is a model marker
ModelMarkerMatches(c) ==
    {i \in 1..Len(c) : /\ c[i].k = "a"
                       /\ c[i].v[1] \in ModelMarkers
                       /\ IsP(c, SkipWs(c, i + 1), "(")}

\* re.search(r'class\s+(\w+)', content): positions of the captured name
ClassNameMatches(c) ==
    {i \in 1..Len(c) : IsWord(c, i - 2, "class") /\ IsWs(c, i - 1) /\ IsW(c, i)}

\* r'private\s+(\w+\s+\w+)\s*;' : positions of the word "private"
FieldMatches(c) ==
    {i \in 1..Len(c) : /\ IsWord(c, i, "private")
                       /\ IsWs(c, i + 1) /\ IsW(c, i + 2)
                       /\ IsWs(c, i + 3) /\ IsW(c, i + 4)
                       /\ IsP(c, SkipWs(c, i + 5), ";")}

\* lines 263-272
RECURSIVE FieldsAt(_, _)
FieldsAt(c, starts) ==
    IF starts = <<>> THEN <<>>
    ELSE LET i == Head(starts)
             field_parts == SplitWhitespace(SubSeq(c, i + 2, i + 4))
         IN  (IF Len(field_parts) = 2
              THEN << [name |-> Text(field_parts[2]),
                       type |-> to_json_schema_type(Text(field_parts[1]))] >>
              ELSE <<>>)
             \o FieldsAt(c, Tail(starts))

\* A dict is a function from its keys; {} is the function of empty domain.
EmptyDict == <<>>

DictUpdate(a, b) ==
    [n \in (DOMAIN a) \cup (DOMAIN b) |-> IF n \in DOMAIN b THEN b[n] ELSE a[n]]

\* lines 250-274 on the text of a readable file
ModelsOfContent(c) ==
    IF ModelMarkerMatches(c) = {} \/ ClassNameMatches(c) = {} THEN EmptyDict
    ELSE [n \in {c[Min(ClassNameMatches(c))].v} |->
             FieldsAt(c, SortedSeq(FieldMatches(c)))]

\* lines 246-277: open() failing is caught and gives {}
_extract_models(java_file) ==
    IF java_file.status # "ok" THEN EmptyDict ELSE ModelsOfContent(java_file.content)

-----------------------------------------------------------------------------
(* Java source text: the inputs.  Each operator writes the token sequence  *)
(* of a piece of Java source from a description of it.                     *)

RECURSIVE Flatten(_)
Flatten(ss) == IF ss = <<>> THEN <<>> ELSE Head(ss) \o Flatten(Tail(ss))

\* the binding annotation of a parameter, by the way it is written
BindingText(form, bname) ==
    CASE form = "plain"      -> <<>>
      [] form = "body"       -> <<A("RequestBody"), Sp>>
      [] form = "path_bare"  -> <<A("PathVariable"), Sp>>
      [] form = "path_pos"   -> <<A("PathVariable"), P("("), Str(<<bname>>), P(")"), Sp>>
      [] form = "path_name"  -> <<A("PathVariable"), P("("), W("name"), Sp, P("="), Sp,
                                  Str(<<bname>>), P(")"), Sp>>
      [] form = "path_value" -> <<A("PathVariable"), P("("), W("value"), P("="),
                                  Str(<<bname>>), P(")"), Sp>>
      [] form = "query_bare" -> <<A("RequestParam"), Sp>>
      [] form = "query_pos"  -> <<A("RequestParam"), P("("), Str(<<bname>>), P(")"), Sp>>
      [] form = "query_name" -> <<A("RequestParam"), P("("), W("name"), Sp, P("="), Sp,
                                  Str(<<bname>>), P(")"), Sp>>
      [] form = "query_optional" ->
                                <<A("RequestParam"), P("("), W("name"), Sp, P("="), Sp,
                                  Str(<<bname>>), P(","), Sp, W("required"), Sp, P("="),
                                  Sp, W("false"), P(")"), Sp>>
      [] form = "query_required" ->
                                <<A("RequestParam"), P("("), W("value"), P("="),
                                  Str(<<bname>>), P(","), Sp, W("required"), P("="),
                                  W("true"), P(")"), Sp>>

ParamForms == {"plain", "body", "path_bare", "path_pos", "path_name", "path_value",
               "query_bare", "query_pos", "query_name", "query_optional",
               "query_required"}
PathForms  == {"path_bare", "path_pos", "path_name", "path_value"}
QueryForms == {"query_bare", "query_pos", "query_name", "query_optional",
               "query_required"}

\* one parameter [form, type, name]:  <binding> Type name
ParamText(p) == BindingText(p.form, p.name) \o <<W(p.type), Sp, W(p.name)>>

RECURSIVE ParamsText(_)
ParamsText(ps) ==
    IF ps = <<>> THEN <<>>
    ELSE IF Len(ps) = 1 THEN ParamText(ps[1])
    ELSE ParamText(ps[1]) \o <<P(","), Sp>> \o ParamsText(Tail(ps))

\* a documentation comment: "text" has one description line, "directive"
\* only an @param line, "both" the description line and then the @param line
DocText(kind, text) ==
    CASE kind = "none" -> <<>>
      [] kind = "text" -> <<Doc(<<"\n", " ", "*", " ", text, "\n", " ">>), Nl>>
      [] kind = "directive" ->
            <<Doc(<<"\n", " ", "*", " ", "@", "param id the id", "\n", " ">>), Nl>>
      [] kind = "both" ->
            <<Doc(<<"\n", " ", "*", " ", text, "\n", " ", "*", " ", "@",
                    "param id the id", "\n", " ">>), Nl>>

DocKinds == {"none", "text", "directive", "both"}

VerbAnnotation(verb) ==
    CASE verb = "GET" -> "GetMapping" [] verb = "POST" -> "PostMapping"
      [] verb = "PUT" -> "PutMapping" [] verb = "DELETE" -> "DeleteMapping"
      [] verb = "PATCH" -> "PatchMapping"

ReturnTypeText(ret) ==
    IF ret = "generic" THEN <<W("List"), P("<"), W("Item"), P(">")>> ELSE <<W(ret)>>

\* one mapped method [doc, docText, method, valueForm, path, ret, name, params]:
\*   /** doc */
\*   @GetMapping("path")            or @GetMapping(value = "path")
\*   public Ret name(params) {
\*   return x;
\*   }
MethodText(m) ==
    DocText(m.doc, m.docText)
    \o <<A(VerbAnnotation(m.method)), P("(")>>
    \o (IF m.valueForm THEN <<W("value"), Sp, P("="), Sp>> ELSE <<>>)
    \o <<Str(m.path), P(")"), Nl, W("public"), Sp>>
    \o ReturnTypeText(m.ret)
    \o <<Sp, W(m.name), P("(")>> \o ParamsText(m.params)
    \o <<P(")"), Sp, P("{"), Nl, W("return"), Sp, W("x"), P(";"), Nl, P("}"), Nl>>

RECURSIVE MethodsText(_)
MethodsText(ms) == IF ms = <<>> THEN <<>> ELSE MethodText(Head(ms)) \o MethodsText(Tail(ms))

\* a line comment of more than Lookahead characters
Ruler == [k |-> "c", v |-> <<"//">> \o [i \in 1..RulerLen |-> "----------"]]

\* a controller file [classDoc, ruler, prefix, methods]:
\*   /** classDoc */
\*   @RestController
\*   @RequestMapping("prefix")
\*   public class C {
\*   // ----------
\*   methods
\*   }
ControllerText(d) ==
    DocText(IF d.classDoc = "" THEN "none" ELSE "text", d.classDoc)
    \o <<A("RestController"), Nl>>
    \o (IF d.prefix = <<>> THEN <<>>
        ELSE <<A("RequestMapping"), P("("), Str(d.prefix), P(")"), Nl>>)
    \o <<W("public"), Sp, W("class"), Sp, W("C"), Sp, P("{"), Nl>>
    \o (IF d.ruler THEN <<Ruler, Nl>> ELSE <<>>)
    \o MethodsText(d.methods)
    \o <<P("}"), Nl>>

\* the entry file:  package <pkg>;  @SpringBootApplication  public class Main { }
\* (pkg = <<>> : no package declaration)
EntryText(pkg) ==
    (IF pkg = <<>> THEN <<>> ELSE <<W("package"), Sp, Dotted(pkg), P(";"), Nl>>)
    \o <<A("SpringBootApplication"), Nl, W("public"), Sp, W("class"), Sp, W("Main"),
         Sp, P("{"), Nl, P("}"), Nl>>

\* a data class [marker, args, cls, fields, second]:
\*   @Marker        or @Marker()
\*   public class Cls {
\*   private Type name;
\*   }
\*   class Other { private Long id; }      (when second)
RECURSIVE FieldsText(_)
FieldsText(fs) ==
    IF fs = <<>> THEN <<>>
    ELSE (IF Head(fs).static
          THEN <<W("private"), Sp, W("static"), Sp>> ELSE <<W("private"), Sp>>)
         \o Head(fs).type \o <<Sp, W(Head(fs).name), P(";"), Nl>>
         \o FieldsText(Tail(fs))

ModelText(d) ==
    (IF d.marker = "" THEN <<>>
     ELSE <<A(d.marker)>> \o (IF d.args THEN <<P("("), P(")")>> ELSE <<>>) \o <<Nl>>)
    \o <<W("public"), Sp, W("class"), Sp, W(d.cls), Sp, P("{"), Nl>>
    \o FieldsText(d.fields)
    \o <<P("}"), Nl>>
    \o (IF d.second
        THEN <<W("class"), Sp, W("Other"), Sp, P("{"), Sp, W("private"), Sp, W("Long"),
               Sp, W("id"), P(";"), Sp, P("}"), Nl>>
        ELSE <<>>)

-----------------------------------------------------------------------------
(* The projects main() is run on *)

JavaFile(name, status, content) == [name |-> name, status |-> status, content |-> content]

UserControllerDesc ==
    [classDoc |-> "", ruler |-> FALSE, prefix |-> <<"/", "v1">>,
     methods |-> << [doc |-> "none", docText |-> "", method |-> "POST",
                     valueForm |-> FALSE, path |-> <<"/", "users">>, ret |-> "UserDto",
                     name |-> "createUser",
                     params |-> <<[form |-> "body", type |-> "UserDto", name |-> "user"]>>] >>]

ItemControllerDesc ==
    [classDoc |-> "", ruler |-> FALSE, prefix |-> <<>>,
     methods |-> << [doc |-> "none", docText |-> "", method |-> "DELETE",
                     valueForm |-> FALSE, path |-> <<"/", "items">>, ret |-> "Item",
                     name |-> "remove", params |-> <<>>],
                    [doc |-> "text", docText |-> "Lists the items.", method |-> "GET",
                     valueForm |-> TRUE, path |-> <<"items">>, ret |-> "Item",
                     name |-> "list", params |-> <<>>] >>]

\* a controller whose mappings are written POST /x, GET /x, GET /y, GET /x
OrderControllerDesc ==
    [classDoc |-> "", ruler |-> FALSE, prefix |-> <<>>,
     methods |-> << [doc |-> "none", docText |-> "", method |-> "POST",
                     valueForm |-> FALSE, path |-> <<"/", "x">>, ret |-> "Item",
                     name |-> "a", params |-> <<>>],
                    [doc |-> "none", docText |-> "", method |-> "GET",
                     valueForm |-> FALSE, path |-> <<"/", "x">>, ret |-> "Item",
                     name |-> "b", params |-> <<>>],
                    [doc |-> "none", docText |-> "", method |-> "GET",
                     valueForm |-> FALSE, path |-> <<"/", "y">>, ret |-> "Item",
                     name |-> "c", params |-> <<>>],
                    [doc |-> "none", docText |-> "", method |-> "GET",
                     valueForm |-> FALSE, path |-> <<"/", "x">>, ret |-> "Item",
                     name |-> "d", params |-> <<>>] >>]

UserModelDesc ==
    [marker |-> "Data", args |-> TRUE, cls |-> "User", second |-> FALSE,
     fields |-> << [static |-> FALSE, type |-> <<W("String")>>, name |-> "name"],
                   [static |-> FALSE, type |-> <<W("int")>>, name |-> "age"] >>]

Package(n) ==
    CASE n = 1 -> <<"app">>
      [] n = 2 -> <<"com", ".", "example">>
      [] n = 3 -> <<"com", ".", "example", ".", "app">>
      [] n = 4 -> <<"com", ".", "example", ".", "app", ".", "Main">>

Catalogue ==
    { JavaFile("Entry1.java", "ok", EntryText(Package(1))),
      JavaFile("Entry2.java", "ok", EntryText(Package(2))),
      JavaFile("Entry3.java", "ok", EntryText(Package(3))),
      JavaFile("Entry4.java", "ok", EntryText(Package(4))),
      JavaFile("NoPackage.java", "ok", EntryText(<<>>)),
      JavaFile("UserController.java", "ok", ControllerText(UserControllerDesc)),
      JavaFile("ItemController.java", "ok", ControllerText(ItemControllerDesc)),
      JavaFile("OrderController.java", "ok", ControllerText(OrderControllerDesc)),
      JavaFile("User.java", "ok", ModelText(UserModelDesc)),
      JavaFile("Undecodable.java", "undecodable", <<>>),
      JavaFile("Missing.java", "missing", <<>>),
      JavaFile("Denied.java", "denied", <<>>) }

Projects == UNION {[1..n -> Catalogue] : n \in 0..MaxFiles}

ServerName == "MyAPI"
GeneratedFiles == {"mcp_schema.json", "main.py", "requirements.txt", "README.md"}
NoSchema == [name |-> "", endpoints |-> <<>>, models |-> EmptyDict]

-----------------------------------------------------------------------------
(* main() *)

UnitIdle == unitIn = <<>> /\ unitOut = <<>> /\ unitPc = "idle"

ProxyIdle ==
    /\ schemaEndpoints = <<>> /\ method = "" /\ regIdx = 0 /\ routes = <<>>
    /\ requests = <<>>

Init ==
    /\ projectExists \in BOOLEAN
    /\ files \in (IF projectExists THEN Projects ELSE {<<>>})
    /\ pc = "start"
    /\ hasLogger = FALSE
    /\ base_package = <<>>
    /\ endpoints = <<>>
    /\ models = EmptyDict
    /\ idx = 0
    /\ raised = "none"
    /\ exitCode = -1
    /\ outputFiles = {}
    /\ schemaDoc = NoSchema
    /\ UnitIdle
    /\ ProxyIdle

\* main()'s handler, lines 551-555
Fail(exception) ==
    /\ raised' = exception
    /\ exitCode' = 1
    /\ pc' = "done"

\* line 529: SpringEndpointScanner(args.project), lines 59-64
Construct ==
    /\ pc = "start"
    /\ LET detected == _detect_base_package(projectExists, files, hasLogger)
       IN  IF detected.kind = "raise"
           THEN /\ Fail(detected.value[1])
                /\ UNCHANGED <<base_package, hasLogger>>
           ELSE /\ base_package' = detected.value
                /\ hasLogger' = TRUE
                /\ pc' = "constructed"
                /\ UNCHANGED <<raised, exitCode>>
    /\ endpoints' = <<>>
    /\ models' = EmptyDict
    /\ UNCHANGED <<projectExists, files, idx, outputFiles, schemaDoc, unitVars, proxyVars>>

\* scan_project entered without the test that the project path exists
ScanWithoutExistsTest ==
    /\ pc = "constructed"
    /\ IF files = <<>>
       THEN pc' = "scanned" /\ UNCHANGED <<raised, exitCode, idx>>
       ELSE pc' = "scanning" /\ idx' = 1 /\ UNCHANGED <<raised, exitCode>>
    /\ UNCHANGED <<projectExists, files, hasLogger, base_package, endpoints, models,
                   outputFiles, schemaDoc, unitVars, proxyVars>>

\* line 530: scan_project up to its loop, lines 281-289
ScanBegin ==
    /\ pc = "constructed"
    /\ IF ~projectExists
       THEN Fail("FileNotFoundError") /\ UNCHANGED idx
       ELSE IF files = <<>>
       THEN pc' = "scanned" /\ UNCHANGED <<raised, exitCode, idx>>
       ELSE pc' = "scanning" /\ idx' = 1 /\ UNCHANGED <<raised, exitCode>>
    /\ UNCHANGED <<projectExists, files, hasLogger, base_package, endpoints, models,
                   outputFiles, schemaDoc, unitVars, proxyVars>>

\* re.search(r'@(RestController|Controller)', content)
HasControllerMarker(c) ==
    \E i \in 1..Len(c) : IsA(c, i, "RestController") \/ IsA(c, i, "Controller")

\* a turn of the loop that puts the file's endpoints in front of the list
ScanFilePrepending ==
    /\ pc = "scanning"
    /\ LET java_file == files[idx]
       IN  /\ models' = DictUpdate(models, _extract_models(java_file))
           /\ endpoints' =
                 IF java_file.status = "ok" /\ HasControllerMarker(java_file.content)
                 THEN _extract_request_mapping(java_file.content) \o endpoints
                 ELSE endpoints
    /\ IF idx = Len(files)
       THEN pc' = "scanned" /\ UNCHANGED idx
       ELSE idx' = idx + 1 /\ UNCHANGED pc
    /\ UNCHANGED <<projectExists, files, hasLogger, base_package, raised, exitCode,
                   outputFiles, schemaDoc, unitVars, proxyVars>>

\* one turn of the loop of scan_project, lines 291-308
ScanFile ==
    /\ pc = "scanning"
    /\ LET java_file == files[idx]
       IN  /\ models' = DictUpdate(models, _extract_models(java_file))
           /\ endpoints' =
                 IF java_file.status = "ok" /\ HasControllerMarker(java_file.content)
                 THEN endpoints \o _extract_request_mapping(java_file.content)
                 ELSE endpoints
    /\ IF idx = Len(files)
       THEN pc' = "scanned" /\ UNCHANGED idx
       ELSE idx' = idx + 1 /\ UNCHANGED pc
    /\ UNCHANGED <<projectExists, files, hasLogger, base_package, raised, exitCode,
                   outputFiles, schemaDoc, unitVars, proxyVars>>

\* MCPServer.generate_schema, lines 322-329
generate_schema(name, eps, ms) == [name |-> name, endpoints |-> eps, models |-> ms]

\* lines 533-537: MCPServer(...).generate_server(output_path), lines 331-505
GenerateServer ==
    /\ pc = "scanned"
    /\ schemaDoc' = generate_schema(ServerName, endpoints, models)
    /\ outputFiles' = GeneratedFiles
    /\ pc' = "generated"
    /\ UNCHANGED <<projectExists, files, hasLogger, base_package, endpoints, models,
                   idx, raised, exitCode, unitVars, proxyVars>>

\* lines 539-557
Return ==
    /\ pc = "generated"
    /\ exitCode' = 0
    /\ pc' = "done"
    /\ UNCHANGED <<projectExists, files, hasLogger, base_package, endpoints, models,
                   idx, raised, outputFiles, schemaDoc, unitVars, proxyVars>>

Next == Construct \/ ScanBegin \/ ScanFile \/ GenerateServer \/ Return

Spec == Init /\ [][Next]_vars

-----------------------------------------------------------------------------
(* Functions applied directly to bounded sets of inputs *)

MainIdle ==
    /\ projectExists = FALSE /\ files = <<>> /\ pc = "idle" /\ hasLogger = FALSE
    /\ base_package = <<>> /\ endpoints = <<>> /\ models = EmptyDict /\ idx = 0
    /\ raised = "none" /\ exitCode = -1 /\ outputFiles = {} /\ schemaDoc = NoSchema

SeqsUpTo(S, n) == UNION {[1..k -> S] : k \in 0..n}

\* the parameter written in each form
ParamOfForm(form) ==
    IF form \in PathForms THEN [form |-> form, type |-> "Long", name |-> "id"]
    ELSE IF form \in QueryForms THEN [form |-> form, type |-> "String", name |-> "q"]
    ELSE IF form = "body" THEN [form |-> form, type |-> "Item", name |-> "item"]
    ELSE [form |-> form, type |-> "int", name |-> "n"]

ParamChoices == {ParamOfForm(form) : form \in ParamForms}

\* class prefix /api, one GET mapping /items/{id}, every parameter list
ParamControllers ==
    { [classDoc |-> "", ruler |-> FALSE, prefix |-> <<"/", "api">>,
       methods |-> << [doc |-> "none", docText |-> "", method |-> "GET",
                       valueForm |-> FALSE,
                       path |-> <<"/", "items", "/", "{", "id", "}">>,
                       ret |-> "Item", name |-> "getItem", params |-> ps] >>]
      : ps \in SeqsUpTo(ParamChoices, MaxParams) }

\* two mapped methods, each with or without a documentation comment, in a
\* class with or without one
DocControllers ==
    { [classDoc |-> cd, ruler |-> r, prefix |-> <<"/", "api">>,
       methods |-> << [doc |-> d1, docText |-> "Gets one.", method |-> "GET",
                       valueForm |-> FALSE, path |-> <<"/", "a">>, ret |-> "Item",
                       name |-> "get",
                       params |-> <<[form |-> "plain", type |-> "Long", name |-> "id"]>>],
                      [doc |-> d2, docText |-> "Lists all.", method |-> v2,
                       valueForm |-> FALSE, path |-> <<"/", "b">>, ret |-> "Item",
                       name |-> n2, params |-> <<>>] >>]
      : cd \in {"", "Item controller."}, r \in BOOLEAN, d1 \in DocKinds,
        d2 \in DocKinds, v2 \in {"GET", "POST"}, n2 \in {"get", "list"} }

\* one mapped method: every verb, prefix, path and return type
PathControllers ==
    { [classDoc |-> "", ruler |-> FALSE, prefix |-> pre,
       methods |-> << [doc |-> "none", docText |-> "", method |-> v, valueForm |-> vf,
                       path |-> pa, ret |-> rt, name |-> "handle", params |-> <<>>] >>]
      : pre \in {<<>>, <<"/", "api">>, <<"v1">>},
        v \in {"GET", "POST", "PUT", "DELETE", "PATCH"}, vf \in BOOLEAN,
        pa \in {<<"/", "items", "/", "{", "id", "}">>, <<"users">>},
        rt \in {"Item", "generic"} }

ControllerInputs == ParamControllers \cup DocControllers \cup PathControllers

ExtractInit ==
    /\ MainIdle
    /\ ProxyIdle
    /\ \E d \in ControllerInputs : unitIn = [desc |-> d, content |-> ControllerText(d)]
    /\ unitOut = <<>>
    /\ unitPc = "ready"

ExtractApply ==
    /\ unitPc = "ready"
    /\ unitOut' = _extract_request_mapping(unitIn.content)
    /\ unitPc' = "applied"
    /\ UNCHANGED <<unitIn, mainVars, proxyVars>>

ExtractSpec == ExtractInit /\ [][ExtractApply]_vars

\* data classes
FieldChoices ==
    { [static |-> FALSE, type |-> <<W("String")>>, name |-> "name"],
      [static |-> FALSE, type |-> <<W("int")>>, name |-> "age"],
      [static |-> FALSE, type |-> <<W("Map")>>, name |-> "attrs"],
      [static |-> FALSE, type |-> <<W("List"), P("<"), W("String"), P(">")>>,
       name |-> "tags"],
      [static |-> TRUE, type |-> <<W("long")>>, name |-> "count"] }

ModelInputs ==
    { [marker |-> mk, args |-> a, cls |-> "User", second |-> sc, fields |-> fs]
      : mk \in {"", "Data", "Entity", "Serializable", "Table"}, a \in BOOLEAN,
        sc \in BOOLEAN, fs \in SeqsUpTo(FieldChoices, MaxFields) }

ModelInit ==
    /\ MainIdle
    /\ ProxyIdle
    /\ \E d \in ModelInputs :
          unitIn = [desc |-> d, content |-> ModelText(d)]
    /\ unitOut = <<>>
    /\ unitPc = "ready"

ModelApply ==
    /\ unitPc = "ready"
    /\ unitOut' = _extract_models(JavaFile("User.java", "ok", unitIn.content))
    /\ unitPc' = "applied"
    /\ UNCHANGED <<unitIn, mainVars, proxyVars>>

ModelSpec == ModelInit /\ [][ModelApply]_vars

\* type names
TypeAlphabet ==
    {n[1] : n \in IntegerAliases \cup NumberAliases \cup BooleanAliases
                  \cup CollectionAliases \cup MapAliases}
    \cup {"String", "UserDto", "<", ">"}

TypeNames == UNION {[1..k -> TypeAlphabet] : k \in 1..MaxTypeLen}

TypeInit ==
    /\ MainIdle
    /\ ProxyIdle
    /\ unitIn \in TypeNames
    /\ unitOut = <<>>
    /\ unitPc = "ready"

TypeApply ==
    /\ unitPc = "ready"
    /\ unitOut' = to_json_schema_type(unitIn)
    /\ unitPc' = "applied"
    /\ UNCHANGED <<unitIn, mainVars, proxyVars>>

TypeSpec == TypeInit /\ [][TypeApply]_vars

-----------------------------------------------------------------------------
(* The generated main.py, lines 365-452: the schema loaded at start-up, the
   registration loop and the handler each turn of the loop registers.  The
   handler is the closure create_handler(endpoint) evaluates to when awaited;
   it reads endpoint_info from its own closure and method from the module. *)

\* line 375, with SPRING_BOOT_URL unset
SPRING_BOOT_BASE_URL == <<"http://localhost:8080">>

\* line 385: endpoint["method"].lower()
Lower(m) ==
    [GET |-> "get", POST |-> "post", PUT |-> "put", DELETE |-> "delete",
     PATCH |-> "patch", TRACE |-> "trace"][m]

\* lines 439-448: the verbs the loop registers a handler for
RouteVerbs == {"get", "post", "put", "delete", "patch"}

\* lines 413-421: the verbs whose outbound call is given json=body
PayloadVerbs == {"post", "put", "patch"}

\* the schema documents main() writes for the catalogue's controllers
UsersSchema == _extract_request_mapping(ControllerText(UserControllerDesc))
ItemsSchema == _extract_request_mapping(ControllerText(ItemControllerDesc))

\* an endpoint of a schema document naming a query parameter
SearchEndpoint ==
    [path         |-> <<"/", "search">>,
     method       |-> "GET",
     methodName   |-> <<"search">>,
     parameters   |-> << [name |-> <<"q">>, type |-> <<"String">>,
                          isBody |-> FALSE,
                          keys |-> {"name", "type", "isBody", "requestParam",
                                    "required"},
                          pathVariable |-> <<>>, requestParam |-> <<"q">>,
                          required |-> TRUE] >>,
     responseType |-> <<"String">>,
     description  |-> <<"GET", " endpoint for ", "/", "search">>]

\* an endpoint of a schema document whose verb the loop registers nothing for
TraceEndpoint ==
    [path         |-> <<"/", "trace">>,
     method       |-> "TRACE",
     methodName   |-> <<"trace">>,
     parameters   |-> <<>>,
     responseType |-> <<"void">>,
     description  |-> <<"TRACE", " endpoint for ", "/", "trace">>]

\* line 371: the documents json.load(f) reads
ProxySchemas ==
    {UsersSchema, ItemsSchema, UsersSchema \o ItemsSchema,
     ItemsSchema \o UsersSchema, <<SearchEndpoint>>,
     <<SearchEndpoint, TraceEndpoint>>}

\* an inbound request: its content-type header, its body, its query string
ContentTypes == {"application/json", "application/json; charset=utf-8", "none"}
NoBody == [value |-> "none", spaced |-> FALSE]
Bodies == {NoBody} \cup {[value |-> "ann", spaced |-> s] : s \in BOOLEAN}
Queries == {EmptyDict, [k \in {<<"q">>} |-> "1"]}

\* what the backend answers
BackendStatuses == {200, 404}
BackendContents == {"backend body"}
NoResponse == [status |-> 0, content |-> ""]

\* line 413: request.json(), the value the body's text denotes
RequestJson(body) == body.value

\* lines 392-403: the query parameters the handler collects
RECURSIVE QueryParams(_, _)
QueryParams(parameters, query) ==
    IF parameters = <<>> THEN EmptyDict
    ELSE LET param == parameters[Len(parameters)]
             rest  == QueryParams(SubSeq(parameters, 1, Len(parameters) - 1),
                                  query)
         IN  IF "pathVariable" \in param.keys THEN rest
             ELSE IF "requestParam" \in param.keys
             THEN DictUpdate(rest,
                      [k \in {param.requestParam} |->
                          IF param.requestParam \in DOMAIN query
                          THEN query[param.requestParam] ELSE "None"])
             ELSE rest

\* line 452: uvicorn.run, reached when the loop has ended
Serving == regIdx = Len(schemaEndpoints)

\* the route the app dispatches a request for (verb, path) to: the first
RouteFor(verb, path) ==
    LET S == {r \in 1..Len(routes) :
                 routes[r].verb = verb /\ routes[r].path = path}
    IN  IF S = {} THEN 0 ELSE CHOOSE r \in S : \A q \in S : r <= q

HandlerInit ==
    /\ MainIdle
    /\ UnitIdle
    /\ schemaEndpoints \in ProxySchemas
    /\ method = ""
    /\ regIdx = 0
    /\ routes = <<>>
    /\ requests = <<>>

\* lines 383-448: one turn of the loop
Register ==
    /\ regIdx < Len(schemaEndpoints)
    /\ LET endpoint == schemaEndpoints[regIdx + 1]
           path     == endpoint.path
       IN  /\ method' = Lower(endpoint.method)
           /\ routes' = IF method' \in RouteVerbs
                        THEN Append(routes, [verb          |-> method',
                                             path          |-> path,
                                             endpoint_info |-> endpoint])
                        ELSE routes
    /\ regIdx' = regIdx + 1
    /\ UNCHANGED <<schemaEndpoints, requests, mainVars, unitVars>>

\* an inbound request arrives and the app dispatches it to a route
Receive ==
    /\ Serving
    /\ Len(requests) < MaxRequests
    /\ \E r \in 1..Len(routes), ct \in ContentTypes, body \in Bodies,
          q \in Queries :
          /\ RouteFor(routes[r].verb, routes[r].path) = r
          /\ requests' = Append(requests,
                 [route       |-> r,
                  contentType |-> ct,
                  body        |-> body,
                  query       |-> q,
                  pc          |-> "received",
                  outbound    |-> <<>>,
                  backend     |-> NoResponse,
                  response    |-> NoResponse])
    /\ UNCHANGED <<schemaEndpoints, method, regIdx, routes, mainVars, unitVars>>

\* lines 390-424: the handler, up to its outbound call
Handle ==
    \E i \in 1..Len(requests) :
       LET request       == requests[i]
           endpoint_info == routes[request.route].endpoint_info
           query_params  == QueryParams(endpoint_info.parameters, request.query)
           target_url    == SPRING_BOOT_BASE_URL \o endpoint_info.path
           json_declared == request.contentType = "application/json"
           body          == IF json_declared THEN RequestJson(request.body)
                            ELSE "None"
           call(json)    == [verb |-> method, url |-> target_url,
                             params |-> query_params, json |-> json]
       IN  /\ request.pc = "received"
           /\ requests' = [requests EXCEPT ![i] =
                 IF method \in PayloadVerbs
                 THEN IF json_declared /\ request.body = NoBody
                      THEN \* request.json() raises on a body that is not JSON
                           [request EXCEPT !.pc = "failed",
                               !.response = [status |-> 500,
                                             content |-> "Internal Server Error"]]
                      ELSE [request EXCEPT !.pc = "awaiting",
                               !.outbound = <<call(body)>>]
                 ELSE IF method \in {"get", "delete"}
                 THEN [request EXCEPT !.pc = "awaiting",
                          !.outbound = <<call("absent")>>]
                 ELSE [request EXCEPT !.pc = "responded",
                          !.response = [status |-> 200,
                                        content |-> "Unsupported method: " \o method]]]
           /\ UNCHANGED <<schemaEndpoints, method, regIdx, routes, mainVars,
                          unitVars>>

\* lines 426-431: the backend answers and the handler relays the answer
BackendRespond ==
    \E i \in 1..Len(requests), status \in BackendStatuses,
       content \in BackendContents :
       /\ requests[i].pc = "awaiting"
       /\ requests' = [requests EXCEPT ![i] =
             [@ EXCEPT !.pc = "responded",
                       !.backend = [status |-> status, content |-> content],
                       !.response = [status |-> status, content |-> content]]]
       /\ UNCHANGED <<schemaEndpoints, method, regIdx, routes, mainVars,
                      unitVars>>

\* a handler that issues its outbound call once more after a failure
BackendFailRetrying ==
    \E i \in 1..Len(requests) :
       /\ requests[i].pc = "awaiting"
       /\ requests' = [requests EXCEPT ![i] =
             IF Len(@.outbound) < 2
             THEN [@ EXCEPT !.outbound = Append(@, @[1])]
             ELSE [@ EXCEPT !.pc = "failed",
                            !.response = [status |-> 500,
                                          content |-> "Internal Server Error"]]]
       /\ UNCHANGED <<schemaEndpoints, method, regIdx, routes, mainVars,
                      unitVars>>

\* lines 409-422: the outbound call raises; the handler catches nothing
BackendFail ==
    \E i \in 1..Len(requests) :
       /\ requests[i].pc = "awaiting"
       /\ requests' = [requests EXCEPT ![i] =
             [@ EXCEPT !.pc = "failed",
                       !.response = [status |-> 500,
                                     content |-> "Internal Server Error"]]]
       /\ UNCHANGED <<schemaEndpoints, method, regIdx, routes, mainVars,
                      unitVars>>

HandlerNext == Register \/ Receive \/ Handle \/ BackendRespond \/ BackendFail

HandlerSpec == HandlerInit /\ [][HandlerNext]_vars

-----------------------------------------------------------------------------
(* Properties of main() *)

\* the two-file project of the end-to-end scenario, in either order: an
\* entry file declaring the namespace pkg and the /v1 users controller
TwoFileProject(pkg) ==
    /\ projectExists
    /\ Len(files) = 2
    /\ \E i, j \in 1..2 :
          /\ i # j
          /\ files[i].status = "ok" /\ files[i].content = EntryText(pkg)
          /\ files[j].status = "ok"
          /\ files[j].content = ControllerText(UserControllerDesc)

Scanned == pc \in {"scanned", "generated"} \/ (pc = "done" /\ exitCode = 0)

\* exactly one Endpoint {path: "/v1/users", method: "POST",
\* parameters: [{name: "user", type: "UserDto", isBody: true}]}
OneUsersEndpoint ==
    /\ Len(endpoints) = 1
    /\ endpoints[1].path = <<"/", "v1", "/", "users">>
    /\ endpoints[1].method = "POST"
    /\ Len(endpoints[1].parameters) = 1
    /\ endpoints[1].parameters[1].keys = {"name", "type", "isBody"}
    /\ endpoints[1].parameters[1].name = <<"user">>
    /\ endpoints[1].parameters[1].type = <<"UserDto">>
    /\ endpoints[1].parameters[1].isBody = TRUE

\* C1 as stated: scanning the two-file project whose entry file declares the
\* namespace com.example.app.Main yields exactly the one POST /v1/users
\* endpoint with the body parameter user: UserDto, and the detected base
\* namespace is com.example.
C1_AsStated ==
    (TwoFileProject(Package(4)) /\ Scanned) =>
        (OneUsersEndpoint /\ base_package = <<"com", ".", "example">>)

\* C1 amended: scanning the two-file project yields exactly the one POST
\* /v1/users endpoint with the body parameter user: UserDto; the detected
\* base namespace is the declared one without its last segment, that is
\* com.example.app for the declared namespace com.example.app.Main (and
\* com.example for the declared namespace com.example.app).
C1_EndToEnd ==
    /\ (TwoFileProject(Package(4)) /\ Scanned) =>
          (OneUsersEndpoint /\ base_package = <<"com", ".", "example", ".", "app">>)
    /\ (TwoFileProject(Package(3)) /\ Scanned) =>
          (OneUsersEndpoint /\ base_package = <<"com", ".", "example">>)

C1_Witness ==
    /\ TwoFileProject(Package(4)) /\ pc = "scanned" /\ OneUsersEndpoint
    /\ base_package = <<"com", ".", "example", ".", "app">>

\* C5: whatever files of an existing project are unreadable, undecodable,
\* missing or permission-denied, neither construction nor scan_project
\* raises: main() ends without an exception and with exit code 0.
C5_PerFileIsolation ==
    (projectExists /\ pc = "done" /\ \E i \in 1..Len(files) : files[i].status # "ok")
        => (raised = "none" /\ exitCode = 0)

\* C6: when the project path does not exist the accumulators are never
\* touched, the scan loop is never entered, nothing is written, and main()
\* ends with the FileNotFoundError reported and a non-zero exit code.
C6_MissingProject ==
    ~projectExists =>
        /\ endpoints = <<>> /\ models = EmptyDict
        /\ outputFiles = {} /\ schemaDoc = NoSchema
        /\ pc \in {"start", "constructed", "done"}
        /\ (pc = "done" => (raised = "FileNotFoundError" /\ exitCode # 0))

C6_Witness ==
    ~projectExists /\ pc = "done" /\ raised = "FileNotFoundError" /\ exitCode = 1

\* the readable files of the project that contain the entry marker
EntryFiles ==
    {i \in 1..Len(files) :
        files[i].status = "ok" /\ HasEntryMarker(files[i].content)}

\* a namespace, as pieces, without its last segment and the dot before it
DropLastSegment(package) ==
    IF Len(package) <= 1 THEN <<>> ELSE SubSeq(package, 1, Len(package) - 2)

\* C11: once the scanner has been constructed, the base namespace is the
\* namespace declared by the first enumerated file that contains the entry
\* marker, without its last segment, however many segments it has; when no
\* file contains the entry marker the base namespace is the empty string;
\* in both cases construction has succeeded.
C11_RootNamespace ==
    pc # "start" =>
        /\ hasLogger
        /\ IF EntryFiles = {} THEN base_package = <<>>
           ELSE LET c == files[Min(EntryFiles)].content
                IN  PackageMatches(c) # {} =>
                       base_package =
                          DropLastSegment(c[Min(PackageMatches(c))].v)

\* what one file of the project contributes: the Endpoint Extractor's output
\* when the file contains a controller marker, nothing otherwise
FileEndpoints(f) ==
    IF f.status = "ok" /\ HasControllerMarker(f.content)
    THEN _extract_request_mapping(f.content) ELSE <<>>

\* the contributions of the first n files, in enumeration order
RECURSIVE FirstFilesEndpoints(_)
FirstFilesEndpoints(n) ==
    IF n = 0 THEN <<>>
    ELSE FirstFilesEndpoints(n - 1) \o FileEndpoints(files[n])

VerbRank(verb) ==
    CASE verb = "GET" -> 1 [] verb = "POST" -> 2 [] verb = "PUT" -> 3
      [] verb = "DELETE" -> 4 [] verb = "PATCH" -> 5

\* the verb, path and method name of each endpoint of a list
Summary(eps) ==
    [k \in 1..Len(eps) |-> <<eps[k].method, eps[k].path, eps[k].methodName>>]

\* C12: during the scan the endpoint list is the concatenation, in
\* enumeration order, of the contributions of the files processed so far,
\* and after it of all files; files without a controller marker contribute
\* nothing; within one file the endpoints come by verb pattern (GET, POST,
\* PUT, DELETE, PATCH) and then by occurrence, duplicates of one (path,
\* method) being kept in place.
C12_Aggregate ==
    /\ pc = "scanning" => endpoints = FirstFilesEndpoints(idx - 1)
    /\ Scanned =>
          /\ endpoints = FirstFilesEndpoints(Len(files))
          /\ \A i \in 1..Len(files) :
                /\ ~(files[i].status = "ok" /\ HasControllerMarker(files[i].content))
                      => FileEndpoints(files[i]) = <<>>
                /\ \A a, b \in 1..Len(FileEndpoints(files[i])) :
                      a < b => VerbRank(FileEndpoints(files[i])[a].method)
                                  <= VerbRank(FileEndpoints(files[i])[b].method)
                /\ files[i].name = "OrderController.java" =>
                      Summary(FileEndpoints(files[i])) =
                         << <<"GET", <<"/", "x">>, <<"b">> >>,
                            <<"GET", <<"/", "y">>, <<"c">> >>,
                            <<"GET", <<"/", "x">>, <<"d">> >>,
                            <<"POST", <<"/", "x">>, <<"a">> >> >>

\* the four endpoints of the order controller followed by the users endpoint
C12_Witness ==
    /\ pc = "scanned" /\ Len(files) = 2
    /\ files[1].name = "OrderController.java"
    /\ files[2].name = "UserController.java"
    /\ Summary(endpoints) =
          << <<"GET", <<"/", "x">>, <<"b">> >>,
             <<"GET", <<"/", "y">>, <<"c">> >>,
             <<"GET", <<"/", "x">>, <<"d">> >>,
             <<"POST", <<"/", "x">>, <<"a">> >>,
             <<"POST", <<"/", "v1", "/", "users">>, <<"createUser">> >> >>

-----------------------------------------------------------------------------
(* Properties of the Endpoint Extractor *)

Applied(S) == unitPc = "applied" /\ unitIn.desc \in S

AllParams == {p \in UNION {{e.parameters[i] : i \in 1..Len(e.parameters)}
                           : e \in {unitOut[k] : k \in 1..Len(unitOut)}} : TRUE}

\* C2: for the controller with class prefix /api and the GET mapping
\* /items/{id} whose method has one path-bound parameter id, written with or
\* without a binding name, the result is one Endpoint with path
\* "/api/items/{id}", method "GET" and exactly one parameter, which has
\* pathVariable = "id".
C2_PathVariable ==
    (/\ Applied(ParamControllers)
     /\ Len(unitIn.desc.methods[1].params) = 1
     /\ unitIn.desc.methods[1].params[1].form \in PathForms)
    => /\ Len(unitOut) = 1
       /\ unitOut[1].path = <<"/", "api", "/", "items", "/", "{", "id", "}">>
       /\ unitOut[1].method = "GET"
       /\ Len(unitOut[1].parameters) = 1
       /\ "pathVariable" \in unitOut[1].parameters[1].keys
       /\ unitOut[1].parameters[1].pathVariable = <<"id">>

\* C4: every parameter marked with the query-parameter annotation and not
\* marked required=false yields a Parameter that carries required = true.
C4_RequiredDefault ==
    Applied(ParamControllers) =>
        \A i \in 1..Len(unitIn.desc.methods[1].params) :
            LET p == unitIn.desc.methods[1].params[i]
            IN  (p.form \in QueryForms \ {"query_optional"}) =>
                    \E q \in AllParams :
                        /\ q.name = <<p.name>>
                        /\ "required" \in q.keys
                        /\ q.required = TRUE

\* the endpoints obtained for the mapped method m of the controller d
EndpointsFor(d, m) ==
    {e \in {unitOut[k] : k \in 1..Len(unitOut)} :
        e.path = d.prefix \o m.path /\ e.method = m.method}

\* C7: the description of a mapped method preceded by a documentation
\* comment with a description line is that line's trimmed text; the
\* description of a mapped method with no documentation comment is
\* "<METHOD> endpoint for <full path>", whatever the other methods carry.
C7_Description ==
    Applied(DocControllers) =>
        \A j \in 1..Len(unitIn.desc.methods) :
            LET d == unitIn.desc
                m == d.methods[j]
            IN  /\ EndpointsFor(d, m) # {}
                /\ \A e \in EndpointsFor(d, m) :
                      /\ m.doc \in {"text", "both"} => e.description = <<m.docText>>
                      /\ m.doc = "none" =>
                            e.description =
                                <<m.method, " endpoint for ">> \o d.prefix \o m.path

-----------------------------------------------------------------------------
(* Properties of the Type Mapper *)

Kinds == {"integer", "number", "boolean", "array", "object", "string"}

\* the rules of the Type Mapper in their priority order
TypeRules ==
    << [kind |-> "integer", names |-> IntegerAliases, marker |-> "none"],
       [kind |-> "number",  names |-> NumberAliases, marker |-> "none"],
       [kind |-> "boolean", names |-> BooleanAliases, marker |-> "none"],
       [kind |-> "array",   names |-> CollectionAliases, marker |-> "contains <"],
       [kind |-> "object",  names |-> MapAliases, marker |-> "begins Map<"] >>

RuleApplies(rule, name) ==
    \/ name \in rule.names
    \/ rule.marker = "contains <" /\ Contains(name, "<")
    \/ rule.marker = "begins Map<" /\ StartsWithMapGeneric(name)

\* C8: the Type Mapper returns, for every type name, one of the six kinds:
\* the kind of the first rule, in priority order, that applies to the name,
\* and string when no rule applies; every alias maps to its own category.
C8_TypeMapper ==
    unitPc = "applied" =>
        LET R == {r \in 1..Len(TypeRules) : RuleApplies(TypeRules[r], unitIn)}
        IN  /\ unitOut \in Kinds
            /\ R # {} => unitOut = TypeRules[Min(R)].kind
            /\ R = {} => unitOut = "string"
            /\ \A r \in 1..Len(TypeRules) :
                  unitIn \in TypeRules[r].names => unitOut = TypeRules[r].kind

\* a name to which two rules apply: it begins with Map< and contains <
C8_Witness ==
    /\ unitPc = "applied" /\ StartsWithMapGeneric(unitIn) /\ unitOut = "array"

-----------------------------------------------------------------------------
(* Properties of the Model Field Extractor *)

\* the private two-token field declarations a data class description writes
RECURSIVE TwoTokenFields(_)
TwoTokenFields(fs) ==
    IF fs = <<>> THEN <<>>
    ELSE (IF ~Head(fs).static /\ Len(Head(fs).type) = 1
          THEN << [name |-> <<Head(fs).name>>,
                   type |-> to_json_schema_type(Text(Head(fs).type))] >>
          ELSE <<>>)
         \o TwoTokenFields(Tail(fs))

ExpectedModels(d) ==
    [n \in {<<d.cls>>} |->
        TwoTokenFields(d.fields)
        \o (IF d.second THEN <<[name |-> <<"id">>, type |-> "integer"]>> ELSE <<>>)]

\* C10: whenever the file carries a data, entity or serializable marker, with
\* or without an argument list, the result maps the first class of the file
\* to all private two-token field declarations of the file, in order, each
\* type mapped by the Type Mapper.
C10_MarkedModels ==
    (unitPc = "applied" /\ unitIn.desc.marker \in ModelMarkers)
        => unitOut = ExpectedModels(unitIn.desc)

-----------------------------------------------------------------------------
(* Properties of the generated proxy *)

\* an inbound request whose content type indicates JSON and whose body is JSON
CarriesJson(request) ==
    /\ request.contentType \in {"application/json",
                                "application/json; charset=utf-8"}
    /\ request.body # NoBody

\* C3: with the schema of the end-to-end scenario loaded, every inbound POST
\* to /v1/users that carries a JSON body and that the handler has taken up
\* has caused exactly one outbound POST to the base URL followed by
\* /v1/users carrying that body, and the response returned to the caller,
\* once there is one, is the backend's status code and body.
C3_ForwardsBody ==
    schemaEndpoints = UsersSchema =>
        \A i \in 1..Len(requests) :
           LET request == requests[i]
           IN  (CarriesJson(request) /\ request.pc # "received") =>
                  /\ Len(request.outbound) = 1
                  /\ request.outbound[1].verb = "post"
                  /\ request.outbound[1].url =
                        SPRING_BOOT_BASE_URL \o <<"/", "v1", "/", "users">>
                  /\ request.outbound[1].json = RequestJson(request.body)
                  /\ (request.pc = "responded" =>
                         request.response = request.backend)

\* C9: in a schema with endpoints of different verbs, the outbound call a
\* handler issues has the verb of the endpoint the handler was registered
\* for and goes to the base URL followed by that endpoint's path.
C9_OwnVerb ==
    (\E a, b \in 1..Len(schemaEndpoints) :
        schemaEndpoints[a].method # schemaEndpoints[b].method) =>
        \A i \in 1..Len(requests) :
           LET request == requests[i]
               route   == routes[request.route]
           IN  request.outbound # <<>> =>
                  /\ request.outbound[1].verb = route.verb
                  /\ request.outbound[1].url = SPRING_BOOT_BASE_URL \o route.path

====
